---- MODULE Spec2Model ----
(***************************************************************************)
(* Model of the HD key-derivation core, types/crypto/keys/hd/hdpath.go.    *)
(*                                                                         *)
(* Representation.                                                         *)
(*   byte slices / [32]byte : sequences of 0..255, big-endian, as in Go    *)
(*   big.Int (non-negative) : its Bytes() form, big-endian, no leading 0   *)
(*   uint32                 : <<hi, lo>>, two 16-bit limbs                 *)
(*   int magnitudes (Atoi)  : <<l3, l2, l1, l0>>, four 16-bit limbs        *)
(*   strings                : sequences of one-character strings           *)
(* The limbs are needed because the model checker's integers are 32 bits   *)
(* wide, and the program's are uint32, int (64 bits) and 256-bit scalars.  *)
(*                                                                         *)
(* crypto/hmac + crypto/sha512 and btcec are libraries outside this        *)
(* repository.  HmacSha512 and SerializeCompressed below stand in for them *)
(* with small deterministic functions of the same shape (64 bytes out;     *)
(* 33 bytes out with a leading 0x02/0x03).  Nothing proved below rests on  *)
(* a property of these stand-ins that the real primitive does not have.    *)
(***************************************************************************)
EXTENDS Integers, Sequences, FiniteSets, TLC

\* ------------------------------------------------------------------------
\* Bounds of the model
\* ------------------------------------------------------------------------

\* Paths handed to DerivePrivateKeyForPath have at most MaxParts tokens.
MaxParts == 2

\* Scalars handed to addScalars lie within MaxDelta of 0, N and 2^256-1.
MaxDelta == 2

\* ------------------------------------------------------------------------
\* Byte strings and big.Int
\* ------------------------------------------------------------------------

Byte == 0..255

\* The function f on 1..n as a sequence of n values.
Tuple(f, n) == SubSeq(f, 1, n)

Zero32 == Tuple([i \in 1..32 |-> 0], 32)

Max(m, n) == IF m >= n THEN m ELSE n

\* s left-padded with zero bytes to length n (n >= Len(s)).
LeftPad(s, n) ==
    Tuple([i \in 1..n |-> IF i <= n - Len(s) THEN 0 ELSE s[i - (n - Len(s))]], n)

\* The least element of a non-empty set of integers.
MinOf(S) == CHOOSE m \in S : \A o \in S : m <= o

\* s without its leading zero bytes.
StripZeros(s) ==
    LET nz == { i \in 1..Len(s) : s[i] # 0 }
    IN  IF nz = {} THEN <<>> ELSE SubSeq(s, MinOf(nz), Len(s))

\* big.Int.SetBytes: the big-endian unsigned integer of a byte slice.
SetBytes(buf) == StripZeros(buf)

\* big.Int.Bytes: the absolute value as a big-endian byte slice (minimal).
Bytes(x) == x

\* The carry into byte k of x + y: the first byte to its right whose sum
\* is not 255 decides it.
CarryInto(x, y, k) ==
    LET js == { j \in (k + 1)..Len(x) : x[j] + y[j] # 255 }
    IN  IF js = {} THEN 0
        ELSE IF x[MinOf(js)] + y[MinOf(js)] >= 256 THEN 1 ELSE 0

\* big.Int.Add on non-negative values.
BigAdd(x0, y0) ==
    LET n == Max(Len(x0), Len(y0)) + 1
        x == LeftPad(x0, n)
        y == LeftPad(y0, n)
    IN  StripZeros(Tuple([k \in 1..n |-> (x[k] + y[k] + CarryInto(x, y, k)) % 256], n))

\* x < y on minimal big-endian forms.
BigLess(x, y) ==
    IF Len(x) # Len(y) THEN Len(x) < Len(y)
    ELSE LET js == { j \in 1..Len(x) : x[j] # y[j] }
         IN  js # {} /\ x[MinOf(js)] < y[MinOf(js)]

\* The borrow from byte k of x - y: the first byte to its right where x and
\* y differ decides it.
BorrowFrom(x, y, k) ==
    LET js == { j \in (k + 1)..Len(x) : x[j] # y[j] }
    IN  IF js = {} THEN 0
        ELSE IF x[MinOf(js)] < y[MinOf(js)] THEN 1 ELSE 0

\* x - y for x >= y.
BigSub(x, y0) ==
    LET n == Len(x)
        y == LeftPad(y0, n)
    IN  StripZeros(Tuple([k \in 1..n |-> (x[k] - y[k] - BorrowFrom(x, y, k) + 256) % 256], n))

\* big.Int.Mod for a non-negative x: the Euclidean remainder.
RECURSIVE BigMod(_, _)
BigMod(x, m) == IF BigLess(x, m) THEN x ELSE BigMod(BigSub(x, m), m)

\* btcec.S256().N, the order of the secp256k1 group:
\* FFFFFFFF FFFFFFFF FFFFFFFF FFFFFFFE BAAEDCE6 AF48A03B BFD25E8C D0364141
CurveN ==
    << 255, 255, 255, 255,  255, 255, 255, 255,
       255, 255, 255, 255,  255, 255, 255, 254,
       186, 174, 220, 230,  175,  72, 160,  59,
       191, 210,  94, 140,  208,  54,  65,  65 >>

\* ------------------------------------------------------------------------
\* addScalars (modular big endian addition)
\* ------------------------------------------------------------------------

\* A slip in the final copy: the bytes are written from the left of the
\* array (copy(x2[:], x)) and not right-aligned.
addScalarsLeftAligned(a, b) ==
    LET x == Bytes(BigMod(BigAdd(SetBytes(a), SetBytes(b)), CurveN))
    IN  Tuple([i \in 1..32 |-> IF i <= Len(x) THEN x[i] ELSE 0], 32)

addScalars(a, b) ==
    LET aInt == SetBytes(a)
        bInt == SetBytes(b)
        sInt == BigAdd(aInt, bInt)
        x    == Bytes(BigMod(sInt, CurveN))
        \* x2 := [32]byte{}; copy(x2[32-len(x):], x)
    IN  Tuple([i \in 1..32 |-> IF i <= 32 - Len(x) THEN 0 ELSE x[i - (32 - Len(x))]], 32)

\* ------------------------------------------------------------------------
\* Machine integers
\* ------------------------------------------------------------------------

Limb == 256 * 256

\* A uint32 from a small literal (below 2^31).
U32(n) == << n \div Limb, n % Limb >>

\* index | 0x80000000
OrHardenedBitAdd(index) == << (index[1] + 32768) % Limb, index[2] >>

OrHardenedBit(index) ==
    << IF index[1] < 32768 THEN index[1] + 32768 ELSE index[1], index[2] >>

\* A byte-order slip: binary.LittleEndian.PutUint32.
uint32ToBytesLE(i) ==
    << i[2] % 256, i[2] \div 256, i[1] % 256, i[1] \div 256 >>

\* binary.BigEndian.PutUint32 into a 4-byte array.
uint32ToBytes(i) ==
    << i[1] \div 256, i[1] % 256, i[2] \div 256, i[2] % 256 >>

\* ------------------------------------------------------------------------
\* Strings: strconv.Atoi, fmt's %d, strings.Split
\* ------------------------------------------------------------------------

Digits == << "0", "1", "2", "3", "4", "5", "6", "7", "8", "9" >>

IsDigit(c) == \E d \in 1..10 : Digits[d] = c

DigitVal(c) == (CHOOSE d \in 1..10 : Digits[d] = c) - 1

ZeroMag == << 0, 0, 0, 0 >>

Pow10(m) == << 1, 10, 100, 1000, 10000, 100000 >>[m + 1]

\* The number written by the m digits of s from position i on (m <= 4).
DigitsVal(s, i, m) ==
    CASE m = 1 -> DigitVal(s[i])
      [] m = 2 -> DigitVal(s[i]) * 10 + DigitVal(s[i + 1])
      [] m = 3 -> DigitVal(s[i]) * 100 + DigitVal(s[i + 1]) * 10 + DigitVal(s[i + 2])
      [] m = 4 -> DigitVal(s[i]) * 1000 + DigitVal(s[i + 1]) * 100
                      + DigitVal(s[i + 2]) * 10 + DigitVal(s[i + 3])

\* n * mult + d on a uint64 held in four limbs; over is set when the result
\* leaves 64 bits.
MulAdd(n, mult, d) ==
    LET t0 == n[4] * mult + d
        t1 == n[3] * mult + t0 \div Limb
        t2 == n[2] * mult + t1 \div Limb
        t3 == n[1] * mult + t2 \div Limb
    IN  [ over |-> t3 >= Limb,
          n    |-> << t3 % Limb, t2 % Limb, t1 % Limb, t0 % Limb >> ]

\* The loop n = n*10 + d of strconv.ParseUint over a string of digits,
\* taken four digits at a time: a value that leaves 64 bits is a range
\* error.
RECURSIVE ParseDigitsFrom(_, _, _)
ParseDigitsFrom(s, i, n) ==
    IF i > Len(s) THEN [err |-> "nil", n |-> n]
    ELSE LET m == IF Len(s) - i + 1 >= 4 THEN 4 ELSE Len(s) - i + 1
             r == MulAdd(n, Pow10(m), DigitsVal(s, i, m))
         IN  IF r.over THEN [err |-> "range", n |-> ZeroMag]
             ELSE ParseDigitsFrom(s, i + m, r.n)

\* strconv.ParseUint(s, 10, 64): a character that is no digit is a syntax
\* error, a value that leaves 64 bits a range error, whichever comes first.
ParseUint(s) ==
    LET bad == { i \in 1..Len(s) : ~IsDigit(s[i]) }
    IN  IF s = <<>> THEN [err |-> "syntax", n |-> ZeroMag]
        ELSE IF bad = {} THEN ParseDigitsFrom(s, 1, ZeroMag)
        ELSE IF ParseDigitsFrom(SubSeq(s, 1, MinOf(bad) - 1), 1, ZeroMag).err = "range"
             THEN [err |-> "range", n |-> ZeroMag]
        ELSE [err |-> "syntax", n |-> ZeroMag]

\* strconv.Atoi with a 64-bit int.  The int it returns is -mag when neg and
\* mag otherwise.
Atoi(s) ==
    IF s = <<>> THEN [err |-> "syntax", neg |-> FALSE, mag |-> ZeroMag]
    ELSE LET neg  == s[1] = "-"
             body == IF s[1] \in {"+", "-"} THEN Tail(s) ELSE s
             u    == ParseUint(body)
         IN  IF u.err # "nil" THEN [err |-> u.err, neg |-> FALSE, mag |-> ZeroMag]
             ELSE IF ~neg /\ u.n[1] >= 32768                   \* un >= 1<<63
                  THEN [err |-> "range", neg |-> FALSE, mag |-> ZeroMag]
             ELSE IF neg /\ BigLess(<<32768, 0, 0, 0>>, u.n)    \* un > 1<<63
                  THEN [err |-> "range", neg |-> FALSE, mag |-> ZeroMag]
             ELSE [err |-> "nil", neg |-> neg, mag |-> u.n]

\* idx < 0
IsNegative(v) == v.neg /\ v.mag # ZeroMag

\* uint32(idx) for idx >= 0: the low 32 bits.
ToUint32(v) == << v.mag[3], v.mag[4] >>

\* u = q * 10000 + r for a uint32 u; q is below 2^19.
DivMod10000(u) ==
    LET cur == (u[1] % 10000) * Limb + u[2]
    IN  [q |-> (u[1] \div 10000) * Limb + cur \div 10000, r |-> cur % 10000]

\* The decimal digits of v, 0 <= v < 10^6, in n places.
PlaceDigits(v, n) == Tuple([i \in 1..n |-> Digits[((v \div Pow10(n - i)) % 10) + 1]], n)

\* The number of decimal digits of v, 0 <= v < 10^6.
NumDigits(v) == MinOf({ n \in 1..6 : n = 6 \/ v < Pow10(n) })

\* fmt's %d of a uint32.
FormatUint(u) ==
    LET d == DivMod10000(u)
    IN  IF d.q = 0 THEN PlaceDigits(d.r, NumDigits(d.r))
        ELSE PlaceDigits(d.q, NumDigits(d.q)) \o PlaceDigits(d.r, 4)

\* strings.Split(path, "/"): the substrings between the separators; a string
\* without separator, the empty string included, gives one substring.
Split(s) ==
    LET seps   == { i \in 1..Len(s) : s[i] = "/" }
        n      == Cardinality(seps)
        \* the position of the j-th separator; 0 and Len(s)+1 bracket them
        pos(j) == IF j = 0 THEN 0
                  ELSE IF j = n + 1 THEN Len(s) + 1
                  ELSE CHOOSE i \in seps : Cardinality({ m \in seps : m < i }) = j - 1
    IN  Tuple([j \in 1..(n + 1) |-> SubSeq(s, pos(j - 1) + 1, pos(j) - 1)], n + 1)

\* ------------------------------------------------------------------------
\* BIP44Params
\* ------------------------------------------------------------------------

BIP44Prefix == << "4", "4", "'", "/", "9", "9", "6", "'", "/" >>

FullFundraiserPath == BIP44Prefix \o << "0", "'", "/", "0", "/", "0" >>

NewParams(purpose, coinType, account, change, addressIdx) ==
    [ Purpose      |-> purpose,
      CoinType     |-> coinType,
      Account      |-> account,
      Change       |-> change,
      AddressIndex |-> addressIdx ]

\* The constructor with the coin type of the comment above it (118).
NewFundraiserParams118(account, addressIdx) ==
    NewParams(U32(44), U32(118), account, FALSE, addressIdx)

NewFundraiserParams(account, addressIdx) ==
    NewParams(U32(44), U32(996), account, FALSE, addressIdx)

DerivationPath(p) ==
    LET change == IF p.Change THEN U32(1) ELSE U32(0)
    IN  << p.Purpose, p.CoinType, p.Account, change, p.AddressIndex >>

\* A canonical form that drops the apostrophe of the account level.
StringPlainAccount(p) ==
    FormatUint(p.Purpose) \o <<"'", "/">> \o FormatUint(p.CoinType) \o <<"'", "/">>
        \o FormatUint(p.Account) \o <<"/">>
        \o (IF p.Change THEN <<"1">> ELSE <<"0">>) \o <<"/">> \o FormatUint(p.AddressIndex)

\* BIP44Params.String: "%d'/%d'/%d'/%s/%d"
String(p) ==
    LET changeStr == IF p.Change THEN <<"1">> ELSE <<"0">>
    IN  FormatUint(p.Purpose) \o <<"'", "/">> \o FormatUint(p.CoinType) \o <<"'", "/">>
            \o FormatUint(p.Account) \o <<"'", "/">>
            \o changeStr \o <<"/">> \o FormatUint(p.AddressIndex)

\* ------------------------------------------------------------------------
\* The primitives of the libraries
\* ------------------------------------------------------------------------

\* Stands in for HMAC-SHA512: 64 bytes; every byte of the key and of the
\* message, and its position, enters some of them.
HmacSha512(key, data) ==
    LET nk == Len(key)
        nd == Len(data)
    IN  Tuple([j \in 1..64 |->
                 ( key[(j % nk) + 1] * 3 + key[((7 * j) % nk) + 1] * (j + 1)
                   + data[((5 * j) % nd) + 1] * 7 + data[((j + 11) % nd) + 1] * (2 * j + 1)
                   + data[nd - (j % 4)] + j * j ) % 256], 64)

\* Stands in for btcec.PrivKeyFromBytes(...).SerializeCompressed(): 33
\* bytes, the first 0x02 or 0x03 (the parity of the point's y), then 32
\* bytes determined by the private key.
SerializeCompressed(privKeyBytes) ==
    << 2 + ((privKeyBytes[32] + privKeyBytes[1]) % 2) >>
        \o Tuple([i \in 1..32 |-> (privKeyBytes[i] * 7 + privKeyBytes[33 - i] * 3 + i) % 256], 32)

\* i64 returns the two halfs of the SHA512 HMAC of key and data.
i64(key, data) ==
    LET I == HmacSha512(key, data)
    IN  [IL |-> SubSeq(I, 1, 32), IR |-> SubSeq(I, 33, 64)]

\* ------------------------------------------------------------------------
\* derivePrivateKey
\* ------------------------------------------------------------------------

\* A hardened message without its leading zero byte.
derivePrivateKeyNoZeroByte(privKeyBytes, chainCode, index0, harden) ==
    LET index == IF harden THEN OrHardenedBit(index0) ELSE index0
        head  == IF harden THEN privKeyBytes ELSE SerializeCompressed(privKeyBytes)
        data  == head \o uint32ToBytes(index)
        h     == i64(chainCode, data)
    IN  [ key |-> addScalars(privKeyBytes, h.IL), chainCode |-> h.IR,
          index |-> index, macKey |-> chainCode, data |-> data ]

\* The result of derivePrivateKey is (key, chainCode); index, macKey and
\* data record the on-wire index and what was handed to i64.
derivePrivateKey(privKeyBytes, chainCode, index0, harden) ==
    LET index == IF harden THEN OrHardenedBit(index0) ELSE index0
        head  == IF harden THEN <<0>> \o privKeyBytes
                 ELSE SerializeCompressed(privKeyBytes)
        data  == head \o uint32ToBytes(index)
        h     == i64(chainCode, data)
        x     == addScalars(privKeyBytes, h.IL)
    IN  [ key       |-> x,
          chainCode |-> h.IR,
          index     |-> index,
          macKey    |-> chainCode,
          data      |-> data ]

\* ------------------------------------------------------------------------
\* DerivePrivateKeyForPath
\* ------------------------------------------------------------------------

ErrInvalid  == "invalid BIP 32 path: strconv.Atoi"
ErrNegative == "invalid BIP 32 path: index negative ot too large"

\* The local state of a call: where it stands (pc), the loop's data and
\* chainCode, what it returned, and the (index, harden) pairs it has
\* handed to derivePrivateKey.
Entry(privKeyBytes, chainCode) ==
    [ pc |-> "loop", data |-> privKeyBytes, chainCode |-> chainCode,
      key |-> Zero32, err |-> "nil", segs |-> <<>> ]

\* return [32]byte{}, <error>
ReturnError(st, e) ==
    [st EXCEPT !.pc = "returned", !.key = Zero32, !.err = e]

\* A loop that forgets the new chain code: every HMAC is keyed with the
\* chain code of the call.
DeriveStepKeepChain(st, idx, harden) ==
    LET d == derivePrivateKey(st.data, st.chainCode, idx, harden)
    IN  [st EXCEPT !.data = d.key,
                   !.segs = Append(@, [index |-> idx, harden |-> harden, wire |-> d.index])]

\* data, chainCode = derivePrivateKey(data, chainCode, uint32(idx), harden)
DeriveStep(st, idx, harden) ==
    LET d == derivePrivateKey(st.data, st.chainCode, idx, harden)
    IN  [st EXCEPT !.data = d.key, !.chainCode = d.chainCode,
                   !.segs = Append(@, [index |-> idx, harden |-> harden, wire |-> d.index])]

\* What the loop's body finds in a part, before it derives.  The slice
\* part[len(part)-1:] of an empty part has a negative bound: the run-time
\* panics.
ReadPart(part0) ==
    IF Len(part0) = 0
    THEN [kind |-> "panic", harden |-> FALSE, idx |-> Atoi(<<>>)]
    ELSE LET harden == part0[Len(part0)] = "'"
             part   == IF harden THEN SubSeq(part0, 1, Len(part0) - 1) ELSE part0
             idx    == Atoi(part)
         IN  [ kind   |-> IF idx.err # "nil" THEN "invalid"
                          ELSE IF IsNegative(idx) THEN "negative" ELSE "index",
               harden |-> harden,
               idx    |-> idx ]

\* One pass through the body of the loop over the parts.
LoopBody(st, part0) ==
    LET r == ReadPart(part0)
    IN  CASE r.kind = "panic"    -> [st EXCEPT !.pc = "panicked"]
          [] r.kind = "invalid"  -> ReturnError(st, ErrInvalid)
          [] r.kind = "negative" -> ReturnError(st, ErrNegative)
          [] r.kind = "index"    -> DeriveStep(st, ToUint32(r.idx), r.harden)

\* After the loop: derivedKey is a copy of data, which is 32 bytes long.
AfterLoop(st) ==
    IF Len(st.data) # 32
    THEN ReturnError(st, "expected a (secp256k1) key of length 32")
    ELSE [st EXCEPT !.pc = "returned", !.key = st.data, !.err = "nil"]

RECURSIVE RunLoop(_, _, _)
RunLoop(st, parts, k) ==
    IF st.pc # "loop" THEN st
    ELSE IF k > Len(parts) THEN AfterLoop(st)
    ELSE RunLoop(LoopBody(st, parts[k]), parts, k + 1)

\* The whole call.
DerivePrivateKeyForPath(privKeyBytes, chainCode, path) ==
    RunLoop(Entry(privKeyBytes, chainCode), Split(path), 1)

\* ------------------------------------------------------------------------
\* Inputs
\* ------------------------------------------------------------------------

Key1 == Tuple([i \in 1..32 |-> i], 32)
Key2 == Tuple([i \in 1..32 |-> (i * 37 + 11) % 256], 32)

Chain1 == Tuple([i \in 1..32 |-> 255 - i], 32)
Chain2 == Tuple([i \in 1..32 |-> (i * i) % 256], 32)

\* (private key, chain code) pairs a caller starts from.
Parents == { <<Key1, Chain1>>, <<Key2, Chain2>> }

\* 0, 996, 2^31-1, 2^31, 2^32-1
U32Samples ==
    { <<0, 0>>, <<0, 996>>, <<32767, 65535>>, <<32768, 0>>, <<65535, 65535>> }

Tokens ==
    { <<>>,                                             \* ""
      <<"'">>,
      <<"0">>, <<"0", "'">>, <<"1", "'">>,
      <<"a", "b", "c">>,
      <<"-", "1">>, <<"-", "1", "'">>, <<"+", "1">>,
      <<"2","1","4","7","4","8","3","6","4","8">>,      \* 2^31
      <<"2","1","4","7","4","8","3","6","4","8","'">>,
      <<"4","2","9","4","9","6","7","2","9","7">>,      \* 2^32+1
      <<"9","2","2","3","3","7","2","0","3","6","8","5","4","7","7","5","8","0","7">>,   \* 2^63-1
      <<"9","2","2","3","3","7","2","0","3","6","8","5","4","7","7","5","8","0","8">> }  \* 2^63

\* purpose, coinType, account and addressIndex of the params tried: every
\* field takes every sample, next to every sample in the other fields.
ParamFields ==
    { [i \in 1..4 |-> IF i = f THEN y ELSE x] : x \in U32Samples, y \in U32Samples, f \in 1..4 }

RECURSIVE Join(_)
Join(ts) ==
    IF Len(ts) = 1 THEN ts[1] ELSE ts[1] \o <<"/">> \o Join(Tail(ts))

TokenSeqs == UNION { [1..n -> Tokens] : n \in 1..MaxParts }

RawPaths == { Join(ts) : ts \in TokenSeqs }

\* ------------------------------------------------------------------------
\* State
\* ------------------------------------------------------------------------

VARIABLES
    privKeyBytes,   \* the caller's key, the first argument of the call
    chainCode,      \* the caller's chain code, the second argument
    path,           \* the third argument
    origin,         \* how the caller made path: by hand or from BIP44Params
    parts,          \* strings.Split(path, "/")
    k,              \* the part the loop stands at
    st,             \* the call's own data, chainCode and result
    cIn,            \* derivePrivateKey harness: the parent and the index
    cHard,          \*   the hardened child, once derived
    cPlain,         \*   the non-hardened child, once derived
    sa, sb,         \* addScalars harness: the operands
    sx              \*   the sum, once computed

pathVars   == << privKeyBytes, chainCode, path, origin, parts, k, st >>
childVars  == << cIn, cHard, cPlain >>
scalarVars == << sa, sb, sx >>
vars       == << pathVars, childVars, scalarVars >>

NoCall ==
    /\ privKeyBytes = Zero32 /\ chainCode = Zero32 /\ path = <<>>
    /\ origin = [kind |-> "none"] /\ parts = <<>> /\ k = 0
    /\ st = [Entry(Zero32, Zero32) EXCEPT !.pc = "idle"]

NoChild == cIn = [privKeyBytes |-> Zero32, chainCode |-> Zero32, index |-> <<0, 0>>]
           /\ cHard = <<>> /\ cPlain = <<>>

NoScalar == sa = <<>> /\ sb = <<>> /\ sx = <<>>

\* ------------------------------------------------------------------------
\* Spec: one call of DerivePrivateKeyForPath, part by part
\* ------------------------------------------------------------------------

Enter(priv, cc, p, o) ==
    /\ privKeyBytes = priv
    /\ chainCode = cc
    /\ path = p
    /\ origin = o
    /\ parts = Split(p)
    /\ k = 1
    /\ st = Entry(priv, cc)

Init ==
    /\ NoChild /\ NoScalar
    /\ \/ \E par \in Parents, p \in RawPaths :
             Enter(par[1], par[2], p, [kind |-> "raw"])
       \/ \E f \in ParamFields, ch \in BOOLEAN :
             LET prm == NewParams(f[1], f[2], f[3], ch, f[4])
             IN  Enter(Key1, Chain1, String(prm), [kind |-> "NewParams", p |-> prm])
       \/ \E ac, ai \in U32Samples :
             LET prm == NewFundraiserParams(ac, ai)
             IN  Enter(Key2, Chain2, String(prm),
                       [kind |-> "NewFundraiserParams", p |-> prm,
                        account |-> ac, addressIdx |-> ai])

InLoop(kind) ==
    /\ st.pc = "loop"
    /\ k <= Len(parts)
    /\ ReadPart(parts[k]).kind = kind

Advance ==
    /\ st' = LoopBody(st, parts[k])
    /\ k' = k + 1
    /\ UNCHANGED << privKeyBytes, chainCode, path, origin, parts, childVars, scalarVars >>

\* The part is empty: the slice expression panics.
StepPanic == InLoop("panic") /\ Advance

\* strconv.Atoi fails.
StepInvalid == InLoop("invalid") /\ Advance

\* idx < 0.
StepNegative == InLoop("negative") /\ Advance

\* The part is an index: one child derivation.
StepDerive == InLoop("index") /\ Advance

\* The loop is over.
Return ==
    /\ st.pc = "loop" /\ k > Len(parts)
    /\ st' = AfterLoop(st)
    /\ UNCHANGED << privKeyBytes, chainCode, path, origin, parts, k, childVars, scalarVars >>

Next == StepPanic \/ StepInvalid \/ StepNegative \/ StepDerive \/ Return

Spec == Init /\ [][Next]_vars

\* ------------------------------------------------------------------------
\* SpecChild: derivePrivateKey, hardened and not, from one parent and index
\* ------------------------------------------------------------------------

KeyMax == Tuple([i \in 1..32 |-> 255], 32)

ChildInputs ==
    [ privKeyBytes : {Key1, Key2, KeyMax},
      chainCode    : {Chain1, Chain2},
      index        : U32Samples \cup { <<0, 1>> } ]

InitChild ==
    /\ NoCall /\ NoScalar
    /\ cIn \in ChildInputs
    /\ cHard = <<>>
    /\ cPlain = <<>>

DeriveHardened ==
    /\ cHard = <<>>
    /\ cHard' = << derivePrivateKey(cIn.privKeyBytes, cIn.chainCode, cIn.index, TRUE) >>
    /\ UNCHANGED << cIn, cPlain, pathVars, scalarVars >>

DerivePlain ==
    /\ cPlain = <<>>
    /\ cPlain' = << derivePrivateKey(cIn.privKeyBytes, cIn.chainCode, cIn.index, FALSE) >>
    /\ UNCHANGED << cIn, cHard, pathVars, scalarVars >>

NextChild == DeriveHardened \/ DerivePlain

SpecChild == InitChild /\ [][NextChild]_vars

\* ------------------------------------------------------------------------
\* SpecScalar: addScalars on scalars around 0, N and 2^256-1
\* ------------------------------------------------------------------------

Nat256(d) == Tuple([i \in 1..32 |-> IF i = 32 THEN d ELSE 0], 32)

ScalarSamples ==
    { Nat256(d) : d \in 0..MaxDelta }
        \cup { LeftPad(BigSub(CurveN, SetBytes(<<d>>)), 32) : d \in 0..MaxDelta }
        \cup { LeftPad(BigAdd(CurveN, SetBytes(<<d>>)), 32) : d \in 0..MaxDelta }
        \cup { Tuple([i \in 1..32 |-> IF i = 32 THEN 255 - d ELSE 255], 32) : d \in 0..MaxDelta }
        \cup { Key1 }

InitScalar ==
    /\ NoCall /\ NoChild
    /\ sa \in ScalarSamples
    /\ sb \in ScalarSamples
    /\ sx = <<>>

AddScalarsCall ==
    /\ sx = <<>>
    /\ sx' = addScalars(sa, sb)
    /\ UNCHANGED << sa, sb, pathVars, childVars >>

NextScalar == AddScalarsCall

SpecScalar == InitScalar /\ [][NextScalar]_vars

\* ------------------------------------------------------------------------
\* Vocabulary of the properties
\* ------------------------------------------------------------------------

\* The part the loop has just been through.
Stepped == k > 1 /\ st.pc # "idle"
LastPart == parts[k - 1]

StripApostrophe(t) ==
    IF t # <<>> /\ t[Len(t)] = "'" THEN SubSeq(t, 1, Len(t) - 1) ELSE t

IsHardenedToken(t) == t # <<>> /\ t[Len(t)] = "'"

AllDigits(s) == s # <<>> /\ \A i \in 1..Len(s) : IsDigit(s[i])

\* An optional sign and at least one digit.
IntegerSyntax(s) ==
    \/ AllDigits(s)
    \/ s # <<>> /\ s[1] \in {"+", "-"} /\ AllDigits(Tail(s))

\* "-" and up to 18 digits, not all of them 0: a negative int.
NegativeLiteral(s) ==
    /\ s # <<>> /\ s[1] = "-" /\ AllDigits(Tail(s))
    /\ Len(s) <= 19
    /\ \E i \in 2..Len(s) : s[i] # "0"

StripLeading0(s) ==
    LET nz == { i \in 1..Len(s) : s[i] # "0" }
    IN  IF nz = {} THEN <<>> ELSE SubSeq(s, MinOf(nz), Len(s))

\* x < y for two strings of digits, as numbers.
DecLess(x0, y0) ==
    LET x  == StripLeading0(x0)
        y  == StripLeading0(y0)
        js == { j \in 1..Len(x) : x[j] # y[j] }
    IN  IF Len(x) # Len(y) THEN Len(x) < Len(y)
        ELSE js # {} /\ DigitVal(x[MinOf(js)]) < DigitVal(y[MinOf(js)])

Dec2p31 == <<"2","1","4","7","4","8","3","6","4","8">>
Dec2p32 == <<"4","2","9","4","9","6","7","2","9","6">>
Dec2p63 == <<"9","2","2","3","3","7","2","0","3","6","8","5","4","7","7","5","8","0","8">>

\* q * N for a small q.
RECURSIVE TimesN(_)
TimesN(q) == IF q = 0 THEN <<>> ELSE BigAdd(CurveN, TimesN(q - 1))

\* r = (a + b) mod N, said without dividing: r < N and a + b = r + q*N.
IsSumModN(r, a, b) ==
    /\ BigLess(SetBytes(r), CurveN)
    /\ \E q \in 0..3 : BigAdd(SetBytes(r), TimesN(q)) = BigAdd(SetBytes(a), SetBytes(b))

Is32Bytes(x) == Len(x) = 32 /\ \A i \in 1..32 : x[i] \in Byte

\* The left fold of derivePrivateKey over (index, harden) pairs.
RECURSIVE Fold(_, _, _)
Fold(acc, segs, j) ==
    IF j > Len(segs) THEN acc
    ELSE LET d == derivePrivateKey(acc.key, acc.chainCode, segs[j].index, segs[j].harden)
         IN  Fold([key |-> d.key, chainCode |-> d.chainCode], segs, j + 1)

\* ------------------------------------------------------------------------
\* Properties
\* ------------------------------------------------------------------------

\* C5.  addScalars(a, b) is (a + b) mod N in exactly 32 bytes, left-padded
\* with zeros, hence below N; (N-1) + 1 gives the all-zero value and a + 0
\* gives a mod N, also for a >= N.
C5_AddScalarsIsSumModN ==
    sx # <<>> =>
        /\ Is32Bytes(sx)
        /\ IsSumModN(sx, sa, sb)
        /\ (sa = LeftPad(BigSub(CurveN, <<1>>), 32) /\ sb = Nat256(1)) => sx = Zero32
        /\ (sb = Zero32 /\ BigLess(SetBytes(sa), CurveN)) => sx = sa
        /\ (sb = Zero32 /\ ~BigLess(SetBytes(sa), CurveN))
              => BigAdd(SetBytes(sx), CurveN) = SetBytes(sa)

\* (N-1) + 1 has been added and came out as 32 zero bytes.
C5_Witness ==
    /\ sx = Zero32
    /\ sa = LeftPad(BigSub(CurveN, <<1>>), 32)
    /\ sb = Nat256(1)

\* C1.  A call on p.String() hands derivePrivateKey the five indices of
\* p.DerivationPath(), in that order, the first three hardened and the last
\* two not, whatever the fields of p.
C1_RoundTrip ==
    origin.kind \in {"NewParams", "NewFundraiserParams"} =>
        /\ Len(parts) = 5
        /\ st.pc \in {"loop", "returned"}
        /\ st.err = "nil"
        /\ Len(st.segs) = k - 1
        /\ st.pc = "returned" => Len(st.segs) = 5
        /\ \A j \in 1..Len(st.segs) :
              /\ st.segs[j].index = DerivationPath(origin.p)[j]
              /\ st.segs[j].harden = (j <= 3)

\* A call on the string of params with fields at the top of the uint32
\* range, change set, has returned.
C1_Witness ==
    /\ origin.kind = "NewParams"
    /\ st.pc = "returned"
    /\ origin.p.Account = <<65535, 65535>>
    /\ origin.p.Purpose = <<32768, 0>>
    /\ origin.p.Change
    /\ Len(st.segs) = 5
    /\ st.segs[3] = [index |-> <<65535, 65535>>, harden |-> TRUE, wire |-> <<65535, 65535>>]

C2_InvalidTokenIsAnError ==
    /\ st.pc # "panicked"
    /\ st.pc = "returned" => Is32Bytes(st.key)
    /\ (Stepped /\ ~IntegerSyntax(StripApostrophe(LastPart)))
          => (st.pc = "returned" /\ st.err = ErrInvalid)

\* C3.  A part that is a negative integer ends the call with the
\* negative-index error, a part that is no integer at all with the
\* invalid-token error; the two errors differ and no key comes back.
C3_DistinctRejections ==
    /\ ErrNegative # ErrInvalid
    /\ (Stepped /\ NegativeLiteral(StripApostrophe(LastPart)))
          => (st.pc = "returned" /\ st.err = ErrNegative /\ st.key = Zero32)
    /\ (Stepped /\ ~IntegerSyntax(StripApostrophe(LastPart)))
          => (st.pc = "returned" /\ st.err = ErrInvalid /\ st.key = Zero32)

\* C4.  A call that stops at a part, be it the first, a middle or the last
\* one, returns an error and the all-zero key, not the key derived so far.
\* (The caller's key and chain code are arrays passed by value: no step of
\* the call writes privKeyBytes or chainCode of the caller.)
C4_NoPartialResult ==
    (st.pc \notin {"idle", "loop"} /\ Len(st.segs) < Len(parts)) =>
        /\ st.pc = "returned"
        /\ st.err # "nil"
        /\ st.key = Zero32
        /\ st.key # st.data

\* C9.  The call derives once per part, left to right, and threads key and
\* chain code: what it holds after j parts is the left fold of
\* derivePrivateKey over the first j (index, harden) pairs, the key it
\* returns is the fold over all of them, and deriving the rest of the path
\* from the pair reached so far gives the result of the whole path.
C9_LeftFold ==
    LET whole == DerivePrivateKeyForPath(privKeyBytes, chainCode, path)
        acc   == Fold([key |-> privKeyBytes, chainCode |-> chainCode], st.segs, 1)
    IN  (st.pc # "idle" /\ whole.pc = "returned" /\ whole.err = "nil") =>
            /\ Len(st.segs) = k - 1
            /\ st.data = acc.key
            /\ st.chainCode = acc.chainCode
            /\ st.pc = "returned" => (st.key = acc.key /\ Len(st.segs) = Len(parts))
            /\ (st.pc = "loop" /\ k <= Len(parts)) =>
                  LET rest == DerivePrivateKeyForPath(st.data, st.chainCode,
                                                      Join(SubSeq(parts, k, Len(parts))))
                  IN  /\ rest.pc = "returned" /\ rest.err = "nil"
                      /\ rest.key = whole.key
                      /\ rest.chainCode = whole.chainCode

\* A path of two parts has been derived, and the same two parts in the
\* other order give another key.
C9_Witness ==
    /\ st.pc = "returned" /\ st.err = "nil"
    /\ Len(parts) = 2
    /\ parts[1] # parts[2]
    /\ LET swapped == DerivePrivateKeyForPath(privKeyBytes, chainCode,
                                              Join(<< parts[2], parts[1] >>))
       IN  swapped.err = "nil" /\ swapped.key # st.key

ChildStepOK(d, harden) ==
    LET priv == cIn.privKeyBytes
        hi   == d.data[34] * 256 + d.data[35]
        lo   == d.data[36] * 256 + d.data[37]
        I    == HmacSha512(cIn.chainCode, d.data)
    IN  /\ Len(d.data) = 37
        /\ \A i \in 1..37 : d.data[i] \in Byte
        /\ harden => /\ d.data[1] = 0
                     /\ SubSeq(d.data, 2, 33) = priv
                     /\ hi = (cIn.index[1] % 32768) + 32768
                     /\ lo = cIn.index[2]
        /\ ~harden => /\ SubSeq(d.data, 1, 33) = SerializeCompressed(priv)
                      /\ hi = cIn.index[1]
                      /\ lo = cIn.index[2]
        /\ d.macKey = cIn.chainCode
        /\ Is32Bytes(d.key)
        /\ IsSumModN(d.key, priv, SubSeq(I, 1, 32))
        /\ d.chainCode = SubSeq(I, 33, 64)

\* C8.  One derivation builds a 37-byte message, 0x00 || key ||
\* bigEndian32(index | 0x80000000) when hardened and compressed public key
\* || bigEndian32(index) when not, keys the HMAC with the parent's chain
\* code and returns (key + IL) mod N and IR.
C8_ChildStep ==
    /\ cHard # <<>> => ChildStepOK(cHard[1], TRUE)
    /\ cPlain # <<>> => ChildStepOK(cPlain[1], FALSE)

\* Both children have been derived from the key of 32 bytes 0xFF at the
\* index 2^31-1, and key + IL went past N.
C8_Witness ==
    /\ cHard # <<>> /\ cPlain # <<>>
    /\ cIn.privKeyBytes = KeyMax
    /\ cIn.index = <<32767, 65535>>
    /\ SubSeq(cHard[1].data, 34, 37) = <<255, 255, 255, 255>>
    /\ SubSeq(cPlain[1].data, 34, 37) = <<127, 255, 255, 255>>
    /\ BigLess(SetBytes(cHard[1].key), SetBytes(KeyMax))

\* The hardened part v' just stepped through, with 2^31 <= v < 2^32, gives
\* the on-wire index, the key and the chain code that (v - 2^31)' gives in
\* its place.
CollidesWithLowIndex ==
    LET seg    == st.segs[k - 1]
        low    == << seg.index[1] - 32768, seg.index[2] >>
        altTok == FormatUint(low) \o <<"'">>
        alt    == DerivePrivateKeyForPath(privKeyBytes, chainCode,
                      Join([SubSeq(parts, 1, k - 1) EXCEPT ![k - 1] = altTok]))
    IN  /\ seg.wire = seg.index
        /\ alt.segs[k - 1].index = low
        /\ alt.segs[k - 1].wire = seg.wire
        /\ alt.key = st.data
        /\ alt.chainCode = st.chainCode

\* The part just stepped through was taken as an index.
Accepted == st.err = "nil" /\ st.pc \in {"loop", "returned"} /\ Len(st.segs) = k - 1

\* C10, as claimed.  No index is too large: every part of value 2^31 or
\* more is taken without error, and a hardened part v' with
\* 2^31 <= v < 2^32 collides with (v - 2^31)'.
C10_NoUpperBound ==
    LET s == StripApostrophe(LastPart)
    IN  (Stepped /\ AllDigits(s) /\ ~DecLess(s, Dec2p31)) =>
            /\ Accepted
            /\ (IsHardenedToken(LastPart) /\ DecLess(s, Dec2p32)) => CollidesWithLowIndex

\* C10, amended.  A part of value v with 2^31 <= v < 2^63 is taken without
\* error and its index is v mod 2^32; from 2^63 on strconv.Atoi reports a
\* range error and the call fails with the invalid-path error.  A hardened
\* part v' with 2^31 <= v < 2^32 collides with (v - 2^31)'.
C10_BoundIsIntRange ==
    LET s == StripApostrophe(LastPart)
    IN  (Stepped /\ AllDigits(s) /\ ~DecLess(s, Dec2p31)) =>
            /\ DecLess(s, Dec2p63) =>
                  /\ Accepted
                  /\ st.segs[k - 1].harden = IsHardenedToken(LastPart)
                  /\ DecLess(s, Dec2p32) => FormatUint(st.segs[k - 1].index) = StripLeading0(s)
            /\ ~DecLess(s, Dec2p63) =>
                  (st.pc = "returned" /\ st.err = ErrInvalid /\ st.key = Zero32)
            /\ (IsHardenedToken(LastPart) /\ DecLess(s, Dec2p32)) => CollidesWithLowIndex

\* The part 2147483648' has been derived with the on-wire index 0x80000000,
\* the one of 0'; and a part of value 2^32+1 has been taken as the index 1.
C10_Witness ==
    /\ st.pc = "returned" /\ st.err = "nil"
    /\ Len(parts) = 2
    /\ parts[1] = <<"2","1","4","7","4","8","3","6","4","8","'">>
    /\ st.segs[1].wire = <<32768, 0>>
    /\ parts[2] = <<"4","2","9","4","9","6","7","2","9","7">>
    /\ st.segs[2].index = <<0, 1>>

====
